---- MODULE Spec2Model ----
(***************************************************************************)
(* Model of the mitmproxy addon src/forward_code.py: the request hook, the *)
(* response hook, the connector-service worker thread and the fire-and-    *)
(* forget sender thread, together with the process-wide stored_headers     *)
(* dict.                                                                   *)
(*                                                                         *)
(* A header collection (mitmproxy Headers) is a sequence of <<name,value>> *)
(* fields: names compare case-insensitively, reading a name joins all its  *)
(* values with ", ", assigning a name keeps the first field of that name   *)
(* and drops the others.  A Python dict is a sequence of <<key,value>>     *)
(* pairs with distinct (case-sensitive) keys in insertion order.           *)
(***************************************************************************)
EXTENDS Integers, Sequences, FiniteSets, TLC

\* ------------------------------ bounds ---------------------------------
\* number of exchanges (flows) the event source creates
MaxFlows == 2
\* number of response events the event source may fire for one exchange
MaxResp == 2
\* length of the header collections given to the header codec on its own
MaxHdrs == 3

\* --------------------------- program constants -------------------------
FORWARD_URL == "http://localhost:9000/receive"
TIMEOUT == 10

None == "<None>"
FlowIds == 1..MaxFlows
Slots == 1..MaxResp

\* ------------------------ header collections ---------------------------
\* str.lower() on the header names that occur in the model
Lower(n) ==
  CASE n = "X-Source" -> "x-source"
    [] n = "X-Request-Id" -> "x-request-id"
    [] n = "Content-Type" -> "content-type"
    [] OTHER -> n

RECURSIVE Join(_)
\* ", ".join(values)
Join(vals) ==
  IF Len(vals) = 0 THEN ""
  ELSE IF Len(vals) = 1 THEN vals[1]
  ELSE vals[1] \o ", " \o Join(Tail(vals))

RECURSIVE GetAll(_, _)
\* Headers.get_all(k): the values of every field named k, in order
GetAll(h, k) ==
  IF Len(h) = 0 THEN << >>
  ELSE IF Lower(h[1][1]) = Lower(k) THEN <<h[1][2]>> \o GetAll(Tail(h), k)
  ELSE GetAll(Tail(h), k)

\* k in headers
Contains(h, k) == \E i \in 1..Len(h) : Lower(h[i][1]) = Lower(k)

\* headers[k]
GetItem(h, k) == Join(GetAll(h, k))

RECURSIVE DelItem(_, _)
\* del headers[k]: drops every field named k
DelItem(h, k) ==
  IF Len(h) = 0 THEN << >>
  ELSE IF Lower(h[1][1]) = Lower(k) THEN DelItem(Tail(h), k)
  ELSE <<h[1]>> \o DelItem(Tail(h), k)

RECURSIVE SetFirst(_, _, _, _)
SetFirst(h, k, v, done) ==
  IF Len(h) = 0 THEN (IF done THEN << >> ELSE << <<k, v>> >>)
  ELSE IF Lower(h[1][1]) = Lower(k)
       THEN (IF done THEN SetFirst(Tail(h), k, v, TRUE)
             ELSE << <<h[1][1], v>> >> \o SetFirst(Tail(h), k, v, TRUE))
  ELSE <<h[1]>> \o SetFirst(Tail(h), k, v, done)

\* headers[k] = v: the first field named k takes v (and keeps its spelling),
\* later fields named k are dropped, a new field is appended when there is none
SetItem(h, k, v) == SetFirst(h, k, v, FALSE)

RECURSIVE KeysFrom(_, _)
KeysFrom(h, seen) ==
  IF Len(h) = 0 THEN << >>
  ELSE IF Lower(h[1][1]) \in seen THEN KeysFrom(Tail(h), seen)
  ELSE <<h[1][1]>> \o KeysFrom(Tail(h), seen \cup {Lower(h[1][1])})

\* iter(headers): each name once, in the spelling of its first field
Keys(h) == KeysFrom(h, {})

\* the snapshot is taken after x-request-id was deleted from the headers
DictOfHeadersStripped(h) ==
  [i \in 1..Len(Keys(DelItem(h, "x-request-id"))) |->
     <<Keys(DelItem(h, "x-request-id"))[i],
       GetItem(DelItem(h, "x-request-id"), Keys(DelItem(h, "x-request-id"))[i])>>]

\* dict(headers): key = first spelling of the name, value = headers[key]
DictOfHeaders(h) == [i \in 1..Len(Keys(h)) |-> <<Keys(h)[i], GetItem(h, Keys(h)[i])>>]

\* d.get(k): an exact (case-sensitive) key lookup
DictGet(d, k) ==
  IF \E i \in 1..Len(d) : d[i][1] = k
  THEN d[CHOOSE i \in 1..Len(d) : d[i][1] = k][2]
  ELSE None

\* d.setdefault(k, v): an existing key keeps its first value
DictSetFirstWins(d, k, v) ==
  IF \E i \in 1..Len(d) : d[i][1] = k THEN d ELSE Append(d, <<k, v>>)

\* d[k] = v on a dict
DictSet(d, k, v) ==
  IF \E i \in 1..Len(d) : d[i][1] = k
  THEN [i \in 1..Len(d) |-> IF d[i][1] = k THEN <<k, v>> ELSE d[i]]
  ELSE Append(d, <<k, v>>)

\* _serialize_headers_preserve: (list_of_pairs, dict_single)
RECURSIVE DictSingle(_, _)
DictSingle(fields, d) ==
  IF Len(fields) = 0 THEN d
  ELSE DictSingle(Tail(fields), DictSet(d, fields[1][1], fields[1][2]))

_serialize_headers_preserve(headers_obj) ==
  [list_of_pairs |-> headers_obj, dict_single |-> DictSingle(headers_obj, << >>)]

\* bytes.decode("utf-8", errors="replace"): an undecodable byte becomes U+FFFD
Decode(b) == IF b = "\\xff" THEN "\\ufffd" ELSE b

\* str(len(content)) for the bodies of the model
ContentLength(b) == IF b = "\\xff" THEN "1" ELSE ToString(Len(b))

\* http.Response.make(status, content, headers): the headers of the dict as
\* fields, then the content assignment sets content-length
ResponseMake(status, content, headers) ==
  [status_code |-> status,
   headers |-> SetItem(headers, "content-length", ContentLength(content)),
   body |-> content]

\* ------------------------------ inputs ---------------------------------
\* requests the clients send
RequestSamples ==
  { [method |-> "GET", url |-> "/a", body |-> "",
     headers |-> << <<"x-source", "connector-service">> >>],
    [method |-> "POST", url |-> "/b", body |-> "b",
     headers |-> << <<"x-source", "connector-service">>, <<"x-request-id", "r1">>,
                    <<"accept", "a">>, <<"accept", "b">> >>],
    [method |-> "GET", url |-> "/c", body |-> "",
     headers |-> << <<"x-request-id", "r1">> >>],
    [method |-> "POST", url |-> "/d", body |-> "\\xff",
     headers |-> << <<"accept", "a">>, <<"X-Request-Id", "r1">>, <<"x-request-id", "r2">> >>],
    [method |-> "GET", url |-> "/e", body |-> "",
     headers |-> << <<"x-source", "other">>, <<"accept", "a">> >>],
    [method |-> "GET", url |-> "/f", body |-> "",
     headers |-> << <<"X-Source", "connector-service">>, <<"x-request-id", "r2">> >>] }

\* responses of the origin server
OriginSamples ==
  { [status_code |-> 200, body |-> "ok",
     headers |-> << <<"Content-Type", "text/html">> >>],
    [status_code |-> 404, body |-> "",
     headers |-> << <<"X-Request-Id", "o1">>, <<"x-state", "origin">>,
                    <<"x-request-id", "o2">> >>] }

\* outcomes of requests.request(...) towards FORWARD_URL: a response whose
\* headers can or cannot be read and which Response.make accepts or rejects,
\* or an exception
SvcOutcomes ==
  { [kind |-> "response", status_code |-> 200, content |-> "ok",
     headers |-> << <<"Content-Type", "application/json">> >>,
     readable |-> TRUE, wellformed |-> TRUE, err |-> None],
    [kind |-> "response", status_code |-> 201, content |-> "ok",
     headers |-> << >>, readable |-> FALSE, wellformed |-> TRUE, err |-> None],
    [kind |-> "response", status_code |-> 200, content |-> "ok",
     headers |-> << <<"content-encoding", "bogus">> >>,
     readable |-> TRUE, wellformed |-> FALSE, err |-> "invalid content-encoding"],
    [kind |-> "exception", status_code |-> 0, content |-> "",
     headers |-> << >>, readable |-> FALSE, wellformed |-> FALSE, err |-> "timed out"],
    [kind |-> "exception", status_code |-> 0, content |-> "",
     headers |-> << >>, readable |-> FALSE, wellformed |-> FALSE,
     err |-> "connection refused"] }

\* where building the enrichment payload may raise
BuildFailures == {"none", "copy", "reinstate", "serialize", "assemble"}

\* ------------------------------- state ---------------------------------
VARIABLES
  dispatch,        \* how the event source runs hooks: "loop" (one at a time) or "threads"
  inbound,         \* the request of each flow as the client sent it (None before it arrives)
  request,         \* flow.request
  response,        \* flow.response (None until produced)
  paused,          \* flow.intercept() called and flow.resume() not yet
  resumes,         \* number of flow.resume() calls per flow
  path,            \* branch the request hook took: "none", "connector", "normal"
  upstream,        \* headers of the request the proxy forwarded to the origin
  stored_headers,  \* the module-level dict: flow id -> removed headers
  worker,          \* the _handle_connector_service thread of each flow
  outbound,        \* the requests.request call the worker made
  hook,            \* the response hook invocations of each flow
  reports,         \* the _send_enriched_async threads started for each flow
  pops,            \* number of successful stored_headers.pop per flow
  log,             \* ctx.log lines written per flow
  ser_in,          \* a header collection handed to _serialize_headers_preserve
  ser_out          \* what _serialize_headers_preserve returned for it

vars == <<dispatch, inbound, request, response, paused, resumes, path, upstream,
          stored_headers, worker, outbound, hook, reports, pops, log, ser_in, ser_out>>

\* what a flow holds before the request, the response, the upstream request, the
\* outbound call or the call's outcome exists
NoRequest == [method |-> None, url |-> None, headers |-> << >>, body |-> None]
NoResponse == [status_code |-> 0, headers |-> << >>, body |-> None]
NotForwarded == [sent |-> FALSE, headers |-> << >>]
NoCall == [method |-> None, url |-> None, headers |-> << >>, data |-> None, timeout |-> 0]
NoOutcome == [kind |-> None, status_code |-> 0, content |-> "", headers |-> << >>,
              readable |-> FALSE, wellformed |-> FALSE, err |-> None]

IdleWorker == [pc |-> "none", headers |-> << >>, svc |-> NoOutcome, err |-> None]
IdleHook == [pc |-> "idle", removed |-> << >>, result |-> None, fail |-> None]

\* before _serialize_headers_preserve has returned
NoSer == [done |-> FALSE, list_of_pairs |-> << >>, dict_single |-> << >>]

\* the flows and the store after the module is loaded
FlowsInit ==
  /\ dispatch \in {"loop", "threads"}
  /\ inbound = [f \in FlowIds |-> NoRequest]
  /\ request = [f \in FlowIds |-> NoRequest]
  /\ response = [f \in FlowIds |-> NoResponse]
  /\ paused = [f \in FlowIds |-> FALSE]
  /\ resumes = [f \in FlowIds |-> 0]
  /\ path = [f \in FlowIds |-> "none"]
  /\ upstream = [f \in FlowIds |-> NotForwarded]
  /\ stored_headers = << >>
  /\ worker = [f \in FlowIds |-> IdleWorker]
  /\ outbound = [f \in FlowIds |-> NoCall]
  /\ hook = [f \in FlowIds |-> [k \in Slots |-> IdleHook]]
  /\ reports = [f \in FlowIds |-> << >>]
  /\ pops = [f \in FlowIds |-> 0]
  /\ log = [f \in FlowIds |-> {}]

Init ==
  /\ FlowsInit
  /\ ser_in = << >>
  /\ ser_out = NoSer

\* a response hook is between two of its statements
HookBusy == \E f \in FlowIds, k \in Slots : hook[f][k].pc \in {"pop", "restore", "report"}

\* the event source may start a hook now
MayDispatch == dispatch = "threads" \/ ~HookBusy

\* one slot shared by all flows: the assignment overwrites every entry
StorePutShared(store, fid, removed) == [g \in (DOMAIN store) \cup {fid} |-> removed]

\* the removed headers are never put into the dict
StorePutNothing(store, fid, removed) == store

\* stored_headers[fid] = removed
StorePut(store, fid, removed) ==
  [g \in (DOMAIN store) \cup {fid} |-> IF g = fid THEN removed ELSE store[g]]

\* the entry is read with stored_headers[fid] and never deleted
StoreKeep(store, fid) == store

\* the dict left by stored_headers.pop(fid)
StoreDel(store, fid) == [g \in (DOMAIN store) \ {fid} |-> store[g]]

\* ---------------------------- request hook ------------------------------
\* request(flow), lines 83-90: headers.get("x-source") == "connector-service"
IsConnector(headers) == DictGet(headers, "x-source") = "connector-service"

\* the removed dict filled with headers.get("x-request-id", "") unconditionally
RemovedAlways(h) == << <<"x-request-id", GetItem(h, "x-request-id")>> >>

\* request(flow), lines 93-96: the removed dict
Removed(h) ==
  IF Contains(h, "x-request-id")
  THEN << <<"x-request-id", GetItem(h, "x-request-id")>> >>
  ELSE << >>

\* the hook reads x-request-id but forgets to delete it
StrippedNotDeleted(h) == h

\* request(flow), lines 94-96: the request headers the hook leaves
Stripped(h) == IF Contains(h, "x-request-id") THEN DelItem(h, "x-request-id") ELSE h

\* request(flow), case A: intercept the flow and start the worker thread
RequestConnector(f, req) ==
  /\ IsConnector(DictOfHeaders(req.headers))
  /\ paused' = [paused EXCEPT ![f] = TRUE]
  /\ worker' = [worker EXCEPT ![f] =
                  [pc |-> "call", headers |-> DictOfHeaders(req.headers),
                   svc |-> NoOutcome, err |-> None]]
  /\ path' = [path EXCEPT ![f] = "connector"]
  /\ log' = [log EXCEPT ![f] = @ \cup {"intercepting"}]
  /\ request' = [request EXCEPT ![f] = req]
  /\ UNCHANGED stored_headers

\* request(flow), case B: strip x-request-id and remember it
RequestNormal(f, req) ==
  /\ ~IsConnector(DictOfHeaders(req.headers))
  /\ request' = [request EXCEPT ![f] = [req EXCEPT !.headers = Stripped(req.headers)]]
  /\ IF Removed(req.headers) # << >>
     THEN /\ stored_headers' = StorePut(stored_headers, f, Removed(req.headers))
          /\ log' = [log EXCEPT ![f] = @ \cup {"stored"}]
     ELSE UNCHANGED <<stored_headers, log>>
  /\ path' = [path EXCEPT ![f] = "normal"]
  /\ UNCHANGED <<paused, worker>>

\* the request event of flow f: the client's request arrives and request(flow) runs
Request(f) ==
  /\ inbound[f] = NoRequest
  /\ \A g \in FlowIds : g < f => inbound[g] # NoRequest
  /\ MayDispatch
  /\ \E req \in RequestSamples :
       /\ inbound' = [inbound EXCEPT ![f] = req]
       /\ (RequestConnector(f, req) \/ RequestNormal(f, req))
  /\ UNCHANGED <<ser_in, ser_out, dispatch, response, resumes, upstream, outbound, hook, reports, pops>>

\* ------------------------- connector-service worker ---------------------
\* _handle_connector_service, lines 46-52: the blocking call and its outcome
WorkerCall(f) ==
  /\ worker[f].pc = "call"
  /\ \E o \in SvcOutcomes :
       /\ outbound' = [outbound EXCEPT ![f] =
                         [method |-> request[f].method, url |-> FORWARD_URL,
                          headers |-> worker[f].headers, data |-> request[f].body,
                          timeout |-> TIMEOUT]]
       /\ worker' = [worker EXCEPT ![f].pc = "install", ![f].svc = o]
  /\ UNCHANGED <<ser_in, ser_out, dispatch, inbound, request, response, paused, resumes, path, upstream,
                 stored_headers, hook, reports, pops, log>>

\* the downstream headers used as they are, without the fallback
SvcHeadersNoFallback(o) == o.headers

\* lines 53-56: the downstream headers, or the fallback when they cannot be read
SvcHeaders(o) ==
  IF o.readable THEN o.headers ELSE << <<"Content-Type", "application/octet-stream">> >>

\* the failure response made with status 500 and no error text
ErrorResponseGeneric(e) ==
  ResponseMake(500, "Error contacting connector service", << <<"Content-Type", "text/plain">> >>)

\* lines 68-72: the synthesized failure response
ErrorResponse(e) ==
  ResponseMake(502, "Error contacting connector service: " \o e,
               << <<"Content-Type", "text/plain">> >>)

\* the worker ends after installing the response; flow.resume() is never called
PcAfterInstallSkipResume(o) == "done"

\* flow.resume() placed at the end of the try block instead of in finally
PcAfterInstallNoFinally(o) ==
  IF o.kind = "response" /\ o.wellformed THEN "resume" ELSE "done"

\* lines 74-75: the finally clause runs flow.resume() after either branch
PcAfterInstall(o) == "resume"

\* the response the worker installs for outcome o (lines 53-73)
Installed(o) ==
  IF o.kind = "response" /\ o.wellformed
  THEN ResponseMake(o.status_code, o.content, SvcHeaders(o))
  ELSE ErrorResponse(o.err)

\* _handle_connector_service, lines 53-73: install the service's response, or the
\* 502 when the call or Response.make raised
WorkerInstall(f) ==
  /\ worker[f].pc = "install"
  /\ response' = [response EXCEPT ![f] = Installed(worker[f].svc)]
  /\ IF worker[f].svc.kind = "response" /\ worker[f].svc.wellformed
     THEN /\ log' = [log EXCEPT ![f] = @ \cup {"delivered"}]
          /\ worker' = [worker EXCEPT ![f].pc = PcAfterInstall(worker[f].svc)]
     ELSE /\ log' = [log EXCEPT ![f] = @ \cup {"svc_error"}]
          /\ worker' = [worker EXCEPT ![f].pc = PcAfterInstall(worker[f].svc),
                                      ![f].err = worker[f].svc.err]
  /\ UNCHANGED <<ser_in, ser_out, dispatch, inbound, request, paused, resumes, path, upstream,
                 stored_headers, outbound, hook, reports, pops>>

\* _handle_connector_service, lines 74-75: finally: flow.resume()
WorkerResume(f) ==
  /\ worker[f].pc = "resume"
  /\ paused' = [paused EXCEPT ![f] = FALSE]
  /\ resumes' = [resumes EXCEPT ![f] = @ + 1]
  /\ worker' = [worker EXCEPT ![f].pc = "done"]
  /\ UNCHANGED <<ser_in, ser_out, dispatch, inbound, request, response, path, upstream,
                 stored_headers, outbound, hook, reports, pops, log>>

\* ------------------------------ event source ----------------------------
\* the proxy forwards the request of a normal flow upstream and the origin answers
OriginResponds(f) ==
  /\ path[f] = "normal"
  /\ response[f] = NoResponse
  /\ \E r \in OriginSamples : response' = [response EXCEPT ![f] = r]
  /\ upstream' = [upstream EXCEPT ![f] = [sent |-> TRUE, headers |-> request[f].headers]]
  /\ UNCHANGED <<ser_in, ser_out, dispatch, inbound, request, paused, resumes, path,
                 stored_headers, worker, outbound, hook, reports, pops, log>>

\* ---------------------------- response hook -----------------------------
\* the presence check is missing: the hook always goes on to pop
EntryPresentAlways(store, fid) == TRUE

\* response(flow), line 112: fid in stored_headers
EntryPresent(store, fid) == fid \in DOMAIN store

\* response(flow), lines 109-113: the k-th response event of flow f starts
RespCheck(f, k) ==
  /\ hook[f][k].pc = "idle"
  /\ IF k = 1 THEN TRUE ELSE hook[f][k - 1].pc # "idle"
  /\ response[f] # NoResponse
  /\ ~paused[f]
  /\ MayDispatch
  /\ IF ~EntryPresent(stored_headers, f)
     THEN hook' = [hook EXCEPT ![f][k].pc = "done", ![f][k].result = "absent"]
     ELSE hook' = [hook EXCEPT ![f][k].pc = "pop"]
  /\ UNCHANGED <<ser_in, ser_out, dispatch, inbound, request, response, paused, resumes, path, upstream,
                 stored_headers, worker, outbound, reports, pops, log>>

\* response(flow), line 115: removed = stored_headers.pop(fid); KeyError when the
\* entry is gone
RespPop(f, k) ==
  /\ hook[f][k].pc = "pop"
  /\ IF f \in DOMAIN stored_headers
     THEN /\ hook' = [hook EXCEPT ![f][k].pc = "restore",
                                  ![f][k].removed = stored_headers[f]]
          /\ stored_headers' = StoreDel(stored_headers, f)
          /\ pops' = [pops EXCEPT ![f] = @ + 1]
     ELSE /\ hook' = [hook EXCEPT ![f][k].pc = "done", ![f][k].result = "KeyError"]
          /\ UNCHANGED <<stored_headers, pops>>
  /\ UNCHANGED <<ser_in, ser_out, dispatch, inbound, request, response, paused, resumes, path, upstream,
                 worker, outbound, reports, log>>

\* x-request-id is restored but the x-state marker is not added
RestoredNoMarker(h, removed) ==
  IF DictGet(removed, "x-request-id") # None
  THEN SetItem(h, "x-request-id", DictGet(removed, "x-request-id"))
  ELSE h

\* the live response is left as it is; only the copies are enriched
RestoredNothing(h, removed) == h

\* lines 118-120: the headers of the client-bound response after the restore
Restored(h, removed) ==
  SetItem(IF DictGet(removed, "x-request-id") # None
          THEN SetItem(h, "x-request-id", DictGet(removed, "x-request-id"))
          ELSE h,
          "x-state", "response")

\* response(flow), lines 117-120: mutate the live response
RespRestore(f, k) ==
  /\ hook[f][k].pc = "restore"
  /\ response' = [response EXCEPT ![f].headers = Restored(@, hook[f][k].removed)]
  /\ hook' = [hook EXCEPT ![f][k].pc = "report"]
  /\ UNCHANGED <<ser_in, ser_out, dispatch, inbound, request, paused, resumes, path, upstream,
                 stored_headers, worker, outbound, reports, pops, log>>

\* the removed headers are not written into the copies
ReinstateNothing(h, removed) == h

RECURSIVE Reinstate(_, _)
\* lines 127-129: copy.headers[k] = v for every removed header
Reinstate(h, removed) ==
  IF Len(removed) = 0 THEN h
  ELSE Reinstate(SetItem(h, removed[1][1], removed[1][2]), Tail(removed))

\* lines 123-151: the enrichment payload
Payload(fid, req, resp, removed) ==
  [flow_id |-> fid,
   request |->
     [method |-> req.method,
      url |-> req.url,
      headers_list |->
        _serialize_headers_preserve(Reinstate(req.headers, removed)).list_of_pairs,
      headers |->
        _serialize_headers_preserve(Reinstate(req.headers, removed)).dict_single,
      body |-> Decode(req.body)],
   response |->
     [status_code |-> resp.status_code,
      headers_list |->
        _serialize_headers_preserve(Reinstate(resp.headers, removed)).list_of_pairs,
      headers |->
        _serialize_headers_preserve(Reinstate(resp.headers, removed)).dict_single,
      body |-> Decode(resp.body)]]

\* the sender thread is started although the payload could not be built
BuildOutcomeAlwaysSend(fail) == "scheduled"

\* the outcome of lines 122-155 when the step named by fail raises: only the
\* payload assembly (lines 135-155) is inside the try
BuildOutcome(fail) ==
  CASE fail = "none" -> "scheduled"
    [] fail = "assemble" -> "caught"
    [] OTHER -> "raised"

\* response(flow), lines 122-155: build the payload and start the sender thread;
\* fail names the step that raises
RespReportWith(f, k, fail) ==
  /\ hook[f][k].pc = "report"
  /\ hook' = [hook EXCEPT ![f][k].pc = "done", ![f][k].result = BuildOutcome(fail),
                          ![f][k].fail = fail]
  /\ reports' = [reports EXCEPT ![f] =
                   IF BuildOutcome(fail) = "scheduled"
                   THEN Append(@, [payload |-> Payload(f, request[f], response[f],
                                                       hook[f][k].removed),
                                   status |-> "inflight"])
                   ELSE @]
  /\ log' = [log EXCEPT ![f] =
               CASE BuildOutcome(fail) = "scheduled" -> @ \cup {"scheduled"}
                 [] BuildOutcome(fail) = "caught" -> @ \cup {"payload_failed"}
                 [] OTHER -> @]
  /\ UNCHANGED <<ser_in, ser_out, dispatch, inbound, request, response, paused, resumes, path, upstream,
                 stored_headers, worker, outbound, pops>>

\* response(flow), lines 122-155, whichever of its steps raises or none
RespReport(f, k) == \E fail \in BuildFailures : RespReportWith(f, k, fail)

\* ------------------------------ sender thread ---------------------------
\* _send_enriched_async: the POST succeeds, or raises and is logged
SendEnriched(f, i) ==
  /\ i \in 1..Len(reports[f])
  /\ reports[f][i].status = "inflight"
  /\ \E ok \in BOOLEAN :
       /\ reports' = [reports EXCEPT ![f][i].status = IF ok THEN "sent" ELSE "failed"]
       /\ log' = [log EXCEPT ![f] = @ \cup {IF ok THEN "sent" ELSE "send_failed"}]
  /\ UNCHANGED <<ser_in, ser_out, dispatch, inbound, request, response, paused, resumes, path, upstream,
                 stored_headers, worker, outbound, hook, pops>>

\* ----------------------------- header codec ------------------------------
\* the (name, value) pairs of the collections given to the codec
SerPairs == {"set-cookie", "Set-Cookie", "accept"} \X {"1", "2"}

\* every header collection of at most MaxHdrs fields
SerInputs == UNION {[1..m -> SerPairs] : m \in 0..MaxHdrs}

\* a call of _serialize_headers_preserve(ser_in)
Serialize ==
  /\ ~ser_out.done
  /\ ser_out' = [done |-> TRUE,
                 list_of_pairs |-> _serialize_headers_preserve(ser_in).list_of_pairs,
                 dict_single |-> _serialize_headers_preserve(ser_in).dict_single]
  /\ ser_in' = ser_in
  /\ UNCHANGED <<dispatch, inbound, request, response, paused, resumes, path, upstream,
                 stored_headers, worker, outbound, hook, reports, pops, log>>

SerInit == FlowsInit /\ ser_in \in SerInputs /\ ser_out = NoSer

SerNext == Serialize

\* the header codec applied to every bounded header collection
SerSpec == SerInit /\ [][SerNext]_vars

\* ---------------------------- specifications ---------------------------
WorkerStep(f) == WorkerCall(f) \/ WorkerInstall(f) \/ WorkerResume(f)

\* the hook leaves lines 122-155: a step that is enabled exactly when
\* RespReport(f, k) is and that every RespReport(f, k) step disables, so weak
\* fairness on it says that the hook's last lines are not postponed for ever,
\* whichever way they end
RespReportEnds(f, k) == RespReportWith(f, k, "assemble")

\* what runs for flow f once the event source or a thread is scheduled: the worker
\* thread, the origin's answer, the first response event and the steps of the
\* response hooks that have started
FlowStep(f) ==
  \/ WorkerStep(f)
  \/ OriginResponds(f)
  \/ RespCheck(f, 1)
  \/ \E k \in Slots : RespPop(f, k) \/ RespRestore(f, k) \/ RespReportEnds(f, k)

Next ==
  \/ \E f \in FlowIds : Request(f)
  \/ \E f \in FlowIds : WorkerCall(f)
  \/ \E f \in FlowIds : WorkerInstall(f)
  \/ \E f \in FlowIds : WorkerResume(f)
  \/ \E f \in FlowIds : OriginResponds(f)
  \/ \E f \in FlowIds, k \in Slots : RespCheck(f, k)
  \/ \E f \in FlowIds, k \in Slots : RespPop(f, k)
  \/ \E f \in FlowIds, k \in Slots : RespRestore(f, k)
  \/ \E f \in FlowIds, k \in Slots : RespReport(f, k)
  \/ \E f \in FlowIds, i \in Slots : SendEnriched(f, i)

Spec == Init /\ [][Next]_vars

\* a started thread keeps running: the worker thread of every flow takes its steps
FairSpec == Spec /\ \A f \in FlowIds : WF_vars(WorkerStep(f))

\* ------------------------------- claims --------------------------------
\* flow f took the normal path and its inbound request carried x-request-id
NormalWithId(f) == path[f] = "normal" /\ Contains(inbound[f].headers, "x-request-id")

\* results of a response hook that consumed the store entry
Consumed == {"scheduled", "caught", "raised"}

\* a response hook of flow f is over: under loop dispatch any hook, under thread
\* dispatch the hook that consumed the entry
ResponseHandled(f) ==
  \E k \in Slots : /\ hook[f][k].pc = "done"
                   /\ dispatch = "loop" \/ hook[f][k].result \in Consumed

\* C1: on the normal path a request that carried x-request-id: R is held, and
\* forwarded upstream, without any x-request-id field, and once the response hook
\* is over the client-bound response has exactly one x-request-id field, whose
\* value is R (the value request.headers["x-request-id"] read from the inbound
\* request).
C1_StripAndRestore ==
  \A f \in FlowIds :
    NormalWithId(f) =>
      /\ ~Contains(request[f].headers, "x-request-id")
      /\ upstream[f].sent => ~Contains(upstream[f].headers, "x-request-id")
      /\ ResponseHandled(f) =>
           GetAll(response[f].headers, "x-request-id")
             = <<GetItem(inbound[f].headers, "x-request-id")>>

\* C1 witness: a flow with x-request-id was forwarded upstream, the origin answered
\* with x-request-id fields of its own, and the response hook is over
C1_Witness ==
  \E f \in FlowIds :
    /\ NormalWithId(f)
    /\ upstream[f].sent
    /\ ResponseHandled(f)
    /\ response[f].status_code = 404
    /\ GetItem(inbound[f].headers, "x-request-id") = "r1"

\* C2: every flow the request hook pauses is eventually resumed, whatever the
\* outcome of the outbound call.
C2_PausedEventuallyResumed ==
  \A f \in FlowIds : paused[f] ~> (~paused[f] /\ resumes[f] = 1)

\* C2 witness: a flow was paused, its outbound call failed, and it was resumed
C2_Witness ==
  \E f \in FlowIds :
    /\ path[f] = "connector"
    /\ worker[f].err # None
    /\ ~paused[f]
    /\ resumes[f] = 1

\* the outbound call of flow f failed: it raised, or its response was rejected
CallFailed(f) ==
  /\ worker[f].pc \in {"install", "resume", "done"}
  /\ worker[f].svc.kind = "exception" \/ ~worker[f].svc.wellformed

\* C3: when the outbound call fails, the response installed on the flow has status
\* 502, the body "Error contacting connector service: <error>", and the single
\* content-type text/plain; and when the worker is over the flow is not paused.
C3_FailureGives502 ==
  \A f \in FlowIds :
    (CallFailed(f) /\ worker[f].pc \in {"resume", "done"}) =>
      /\ response[f].status_code = 502
      /\ response[f].body = "Error contacting connector service: " \o worker[f].svc.err
      /\ GetAll(response[f].headers, "content-type") = <<"text/plain">>
      /\ worker[f].pc = "done" => (~paused[f] /\ resumes[f] = 1)

\* C3 witness: the call timed out and the worker is over
C3_Witness ==
  \E f \in FlowIds :
    /\ worker[f].pc = "done"
    /\ worker[f].svc.err = "timed out"
    /\ response[f].status_code = 502

\* the inbound headers name x-source (in any spelling) with the sentinel value
HasSentinel(h) == Contains(h, "x-source") /\ GetItem(h, "x-source") = "connector-service"

\* C4: a request whose x-source equals connector-service is delegated to the
\* forward target and never forwarded upstream; any other request is forwarded
\* upstream and never delegated.
C4_SentinelSelectsPath ==
  \A f \in FlowIds :
    inbound[f] # NoRequest =>
      IF HasSentinel(inbound[f].headers)
      THEN path[f] = "connector" /\ worker[f].pc # "none" /\ ~upstream[f].sent
      ELSE path[f] = "normal" /\ worker[f].pc = "none" /\ outbound[f] = NoCall

\* at least one header was removed from the request of flow f
HeaderRemoved(f) == Len(request[f].headers) < Len(inbound[f].headers)

\* C5 as stated: the store holds an entry for a flow exactly when the flow took
\* the normal path and a header was removed from its request.
C5_EntryIffRemoved ==
  \A f \in FlowIds :
    (f \in DOMAIN stored_headers) <=> (path[f] = "normal" /\ HeaderRemoved(f))

\* C5 amended: the store holds an entry for a flow exactly when the flow took the
\* normal path, a header was removed from its request, and no response hook has
\* consumed the entry yet; the entry is the removed x-request-id.
C5_EntryIffRemovedAndNotConsumed ==
  \A f \in FlowIds :
    /\ (f \in DOMAIN stored_headers)
         <=> (path[f] = "normal" /\ HeaderRemoved(f) /\ pops[f] = 0)
    /\ f \in DOMAIN stored_headers =>
         stored_headers[f] = << <<"x-request-id", GetItem(inbound[f].headers, "x-request-id")>> >>

\* C5 witness: one flow holds its entry while the entry of another was consumed
C5_Witness ==
  \E f, g \in FlowIds :
    /\ f \in DOMAIN stored_headers
    /\ g \notin DOMAIN stored_headers
    /\ path[g] = "normal" /\ HeaderRemoved(g) /\ pops[g] = 1

\* flow f never had a store entry
NeverStored(f) == path[f] # "normal" \/ ~Contains(inbound[f].headers, "x-request-id")

\* C6: a response hook for an id that has no entry ends with "absent" and no
\* error; over a sequence of response events for one id (hooks run one after the
\* other) the first obtains the entry and every later one ends with "absent".
C6_TakeIfPresent ==
  \A f \in FlowIds, k \in Slots :
    hook[f][k].pc = "done" =>
      IF NeverStored(f) THEN hook[f][k].result = "absent"
      ELSE dispatch = "loop" =>
             IF k = 1
             THEN /\ hook[f][k].result \in Consumed
                  /\ hook[f][k].removed # << >>
             ELSE hook[f][k].result = "absent"

\* C6 witness: two response events in sequence for a flow that had an entry, and a
\* response event for a flow that never had one
C6_Witness ==
  \E f, g \in FlowIds :
    /\ dispatch = "loop"
    /\ ~NeverStored(f)
    /\ \A k \in Slots : hook[f][k].pc = "done"
    /\ NeverStored(g) /\ hook[g][1].pc = "done"

\* flow f took the normal path and its inbound request had no x-request-id
NormalWithoutId(f) == path[f] = "normal" /\ ~Contains(inbound[f].headers, "x-request-id")

\* C7: on the normal path without x-request-id the request hook leaves the request
\* and the store unchanged, the response hook leaves the response as the origin
\* sent it, and no report is started.
C7_NoIdNoEffect ==
  \A f \in FlowIds :
    NormalWithoutId(f) =>
      /\ request[f] = inbound[f]
      /\ f \notin DOMAIN stored_headers
      /\ pops[f] = 0
      /\ response[f] \in OriginSamples \cup {NoResponse}
      /\ reports[f] = << >>
      /\ \A k \in Slots : hook[f][k].pc \in {"idle", "done"}
                          /\ hook[f][k].result \in {None, "absent"}

\* C7 witness: the origin answered 404 to a request without x-request-id, the
\* response hook is over, and another flow holds a store entry
C7_Witness ==
  \E f, g \in FlowIds :
    /\ NormalWithoutId(f)
    /\ response[f].status_code = 404
    /\ hook[f][1].pc = "done"
    /\ g \in DOMAIN stored_headers

\* C8: the entry of a flow is consumed at most once and at most one report is
\* started per flow, under both dispatch modes and with repeated response events.
C8_AtMostOnce ==
  \A f \in FlowIds :
    /\ pops[f] <= 1
    /\ Len(reports[f]) <= 1
    /\ Cardinality({k \in Slots : hook[f][k].result \in Consumed}) <= 1

\* C8 witness: every response event of a flow is over, under thread dispatch, the
\* entry was consumed and the report started
C8_Witness ==
  \E f \in FlowIds :
    /\ dispatch = "threads"
    /\ \A k \in Slots : hook[f][k].pc = "done"
    /\ pops[f] = 1
    /\ Len(reports[f]) = 1

\* C9: check and removal are one atomic step: among the response hooks of one
\* flow, however they interleave, at most one obtains the entry and every other
\* one ends with "absent", none with an error.
C9_AtomicTake ==
  \A f \in FlowIds :
    /\ Cardinality({k \in Slots : hook[f][k].pc \in {"restore", "report"}
                                  \/ hook[f][k].result \in Consumed}) <= 1
    /\ \A k \in Slots : hook[f][k].result # "KeyError"

\* C10: a failure in any step of building the payload (copy, reinstate, serialize,
\* assemble) is caught in the hook and logged, no report is started, and the
\* client-bound response keeps x-request-id and x-state.
C10_BuildFailureCaught ==
  \A f \in FlowIds, k \in Slots :
    (hook[f][k].pc = "done" /\ hook[f][k].fail \notin {None, "none"}) =>
      /\ hook[f][k].result = "caught"
      /\ "payload_failed" \in log[f]
      /\ reports[f] = << >>
      /\ GetAll(response[f].headers, "x-state") = <<"response">>
      /\ GetAll(response[f].headers, "x-request-id")
           = <<GetItem(inbound[f].headers, "x-request-id")>>

\* C11: the outbound call of a connector flow carries the original request
\* verbatim: its method, its body, and every header pair of the inbound request,
\* repeated names included.
C11_OutboundVerbatim ==
  \A f \in FlowIds :
    outbound[f] # NoCall =>
      /\ outbound[f].method = inbound[f].method
      /\ outbound[f].data = inbound[f].body
      /\ outbound[f].headers = inbound[f].headers

NamesOf(h) == {h[i][1] : i \in 1..Len(h)}

\* the value of the last field of h whose name is n
LastValue(h, n) ==
  h[CHOOSE i \in 1..Len(h) : h[i][1] = n /\ \A j \in (i + 1)..Len(h) : h[j][1] # n][2]

\* C13: for every header collection, repeated names and the empty collection
\* included, serialize returns as pairs the fields in their order with duplicates
\* kept, and a mapping with one key per name present (names as stored) whose value
\* is the value of the last field of that name; the input is not modified.
C13_SerializeInv ==
  ser_out.done =>
    /\ ser_out.list_of_pairs = ser_in
    /\ NamesOf(ser_out.dict_single) = NamesOf(ser_in)
    /\ Len(ser_out.dict_single) = Cardinality(NamesOf(ser_in))
    /\ \A n \in NamesOf(ser_in) : DictGet(ser_out.dict_single, n) = LastValue(ser_in, n)

C13_Serialize == []C13_SerializeInv /\ [][ser_in' = ser_in]_vars

\* C13 witness: a collection with a repeated name whose occurrences differ, and a
\* second name between them, was serialized
C13_Witness ==
  /\ ser_out.done
  /\ Len(ser_in) = 3
  /\ ser_in[1][1] = ser_in[3][1] /\ ser_in[1][2] # ser_in[3][2]
  /\ ser_in[2][1] # ser_in[1][1]

\* the outbound call of flow f returned a response that Response.make accepted,
\* and the worker has installed it
CallSucceeded(f) ==
  /\ worker[f].pc \in {"resume", "done"}
  /\ worker[f].svc.kind = "response" /\ worker[f].svc.wellformed

\* C14: when the outbound call succeeds, the response installed before the resume
\* has the call's status code and body, and as headers the call's response headers,
\* or the single content-type application/octet-stream when they cannot be read
\* (in both cases with the content-length Response.make sets); unreadable headers
\* do not give a 502.
C14_SuccessInstalled ==
  \A f \in FlowIds :
    CallSucceeded(f) =>
      /\ response[f].status_code = worker[f].svc.status_code
      /\ response[f].body = worker[f].svc.content
      /\ DelItem(response[f].headers, "content-length")
           = IF worker[f].svc.readable
             THEN DelItem(worker[f].svc.headers, "content-length")
             ELSE << <<"Content-Type", "application/octet-stream">> >>
      /\ GetAll(response[f].headers, "content-length")
           = <<ContentLength(worker[f].svc.content)>>
      /\ worker[f].pc = "resume" => paused[f]

\* C14 witness: a call whose response headers could not be read was installed and
\* the flow resumed
C14_Witness ==
  \E f \in FlowIds :
    /\ CallSucceeded(f)
    /\ ~worker[f].svc.readable
    /\ worker[f].pc = "done"
    /\ response[f].status_code = 201

\* a response hook of flow f has consumed the entry and run lines 117-120
Enriched(f) ==
  \E k \in Slots : hook[f][k].pc = "report"
                   \/ (hook[f][k].pc = "done" /\ hook[f][k].result \in Consumed)

C16_MutationBeforeReport ==
  [][\A f \in FlowIds :
       reports'[f] # reports[f] =>
         /\ GetAll(response[f].headers, "x-state") = <<"response">>
         /\ GetAll(response[f].headers, "x-request-id")
              = <<GetItem(inbound[f].headers, "x-request-id")>>
         /\ response' = response
         /\ stored_headers' = stored_headers]_vars

\* C16 witness: the send of a report failed and the send of another succeeded
C16_Witness ==
  \E f, g \in FlowIds :
    /\ Len(reports[f]) = 1 /\ reports[f][1].status = "failed"
    /\ Len(reports[g]) = 1 /\ reports[g][1].status = "sent"

\* the state of flow f in the connector state machine
ConnState(f) ==
  CASE worker[f].pc = "none" -> "received"
    [] worker[f].pc \in {"call", "install"} -> "intercepted"
    [] worker[f].pc = "resume" ->
         IF worker[f].svc.kind = "response" /\ worker[f].svc.wellformed
         THEN "delivered" ELSE "failed"
    [] OTHER -> "resumed"

\* position of a state in received, intercepted, (delivered | failed), resumed
ConnRank(st) ==
  CASE st = "received" -> 0
    [] st = "intercepted" -> 1
    [] st \in {"delivered", "failed"} -> 2
    [] OTHER -> 3

C17_Inv ==
  \A f \in FlowIds :
    /\ paused[f] => path[f] = "connector"
    /\ path[f] # "connector" => (ConnState(f) = "received" /\ resumes[f] = 0)
    /\ ConnState(f) \in {"intercepted", "delivered", "failed"} =>
         (paused[f] /\ resumes[f] = 0 /\ path[f] = "connector")
    /\ outbound[f] # NoCall => ConnRank(ConnState(f)) >= 1
    /\ ConnState(f) = "intercepted" => response[f] = NoResponse
    /\ ConnState(f) = "delivered" =>
         (response[f] # NoResponse /\ response[f].status_code = worker[f].svc.status_code)
    /\ ConnState(f) = "failed" => response[f].status_code = 502
    /\ ConnState(f) = "resumed" =>
         (~paused[f] /\ resumes[f] = 1 /\ response[f] # NoResponse)

C17_Step ==
  \A f \in FlowIds :
    /\ ConnRank(ConnState(f)') >= ConnRank(ConnState(f))
    /\ ConnRank(ConnState(f)') <= ConnRank(ConnState(f)) + 1
    /\ ConnState(f) = "resumed" =>
         (worker'[f] = worker[f] /\ paused'[f] = paused[f] /\ resumes'[f] = resumes[f])
    /\ outbound'[f] # outbound[f] => (paused[f] /\ ConnState(f) = "intercepted")
    /\ resumes'[f] # resumes[f] => ConnState(f) \in {"delivered", "failed"}

\* C17: a connector flow moves only forward through received, intercepted,
\* (delivered | failed), resumed: it is paused before the outbound call is issued,
\* a response (the service's or the 502) is installed before resume is called,
\* resume is called exactly once and is terminal, and only connector flows are
\* ever paused.
C17_ConnectorStateMachine == []C17_Inv /\ [][C17_Step]_vars

\* C17 witness: one connector flow went through failed and another through
\* delivered, and both are resumed
C17_Witness ==
  \E f, g \in FlowIds :
    /\ ConnState(f) = "resumed" /\ response[f].status_code = 502
    /\ ConnState(g) = "resumed" /\ response[g].status_code = 201

\* the event source delivers a response event for every request event, and started
\* hooks and threads keep running
FairEventsSpec == Spec /\ \A f \in FlowIds : WF_vars(FlowStep(f))

\* flow f took the normal path and none of its response hooks is over
Outstanding(f) == path[f] = "normal" /\ \A k \in Slots : hook[f][k].pc # "done"

\* the store is empty whenever no normal-path exchange is outstanding
C18_Inv == (\A f \in FlowIds : ~Outstanding(f)) => stored_headers = << >>

\* an entry stays as it is in every step that is not a step of a response hook of
\* its own flow
C18_Step ==
  \A f \in FlowIds :
    (f \in DOMAIN stored_headers /\ hook'[f] = hook[f]) =>
      (f \in DOMAIN stored_headers' /\ stored_headers'[f] = stored_headers[f])

\* C18: when every request event is followed by a response event, every entry
\* put into the store is eventually removed, so the store is empty whenever no
\* normal-path exchange is outstanding; an entry stays in the store for as long
\* as no response event of its flow fires.
C18_EntriesTransient ==
  /\ \A f \in FlowIds : (f \in DOMAIN stored_headers) ~> (f \notin DOMAIN stored_headers)
  /\ []C18_Inv
  /\ [][C18_Step]_vars

\* C18 witness: two flows had entries, both were consumed and the store is empty
C18_Witness ==
  /\ stored_headers = << >>
  /\ \A f \in FlowIds : pops[f] = 1 /\ ~Outstanding(f)

\* the entry of flow g in the store, empty when there is none
EntryOf(store, g) == IF g \in DOMAIN store THEN store[g] ELSE << >>

\* whatever a flow has in the store, in a running response hook, in its client
\* response and in its reports is the x-request-id of its own request
C19_Inv ==
  \A f \in FlowIds :
    LET R == GetItem(inbound[f].headers, "x-request-id")
    IN /\ EntryOf(stored_headers, f) \in {<< >>, Removed(inbound[f].headers)}
       /\ \A k \in Slots :
            hook[f][k].removed \in {<< >>, << <<"x-request-id", R>> >>}
       /\ Enriched(f) => GetAll(response[f].headers, "x-request-id") = <<R>>
       /\ \A i \in 1..Len(reports[f]) :
            /\ GetAll(reports[f][i].payload.request.headers_list, "x-request-id") = <<R>>
            /\ GetAll(reports[f][i].payload.response.headers_list, "x-request-id") = <<R>>

\* a step that creates, changes or removes the entry of flow g is a step of g's
\* own request or response hook and touches no other flow
C19_Step ==
  \A g \in FlowIds :
    EntryOf(stored_headers', g) # EntryOf(stored_headers, g) =>
      /\ inbound'[g] # inbound[g] \/ hook'[g] # hook[g]
      /\ \A f \in FlowIds \ {g} :
           /\ inbound'[f] = inbound[f] /\ hook'[f] = hook[f]
           /\ request'[f] = request[f] /\ response'[f] = response[f]
           /\ EntryOf(stored_headers', f) = EntryOf(stored_headers, f)

\* C19: under any interleaving of the request and response hooks of distinct
\* flows, the x-request-id restored into a flow's client response and put into
\* its report is the value removed from that flow's own request; a hook of one
\* flow never creates, changes or removes the store entry of another flow.
C19_FlowsIsolated == []C19_Inv /\ [][C19_Step]_vars

\* C19 witness: the response hooks of two flows with different x-request-id run
\* interleaved, one has restored its value and the other has reported it
C19_Witness ==
  /\ dispatch = "threads"
  /\ \E f, g \in FlowIds :
       /\ GetItem(inbound[f].headers, "x-request-id") = "r1"
       /\ GetItem(inbound[g].headers, "x-request-id") = "r2"
       /\ hook[f][1].pc = "report" /\ hook[g][1].pc = "done"
       /\ Len(reports[g]) = 1
       /\ GetAll(response[f].headers, "x-request-id") = <<"r1">>
       /\ GetAll(response[g].headers, "x-request-id") = <<"r2">>

\* C20: a connector flow never creates or consumes a store entry and its request
\* headers are left as received (x-request-id, when present, is not stripped and
\* is sent to the forward target); a response event of such a flow returns at
\* line 113 without changing the installed response (no x-request-id restored,
\* no x-state added) and starts no enrichment report.
C20_ConnectorUntouched ==
  \A f \in FlowIds :
    path[f] = "connector" =>
      /\ f \notin DOMAIN stored_headers /\ pops[f] = 0 /\ "stored" \notin log[f]
      /\ request[f] = inbound[f]
      /\ (outbound[f] # NoCall /\ Contains(inbound[f].headers, "x-request-id")) =>
           GetAll(outbound[f].headers, "x-request-id")
             = <<GetItem(inbound[f].headers, "x-request-id")>>
      /\ \A k \in Slots :
           /\ hook[f][k].pc \in {"idle", "done"}
           /\ hook[f][k].pc = "done" => hook[f][k].result = "absent"
           /\ hook[f][k].removed = << >>
      /\ worker[f].pc \in {"resume", "done"} => response[f] = Installed(worker[f].svc)
      /\ reports[f] = << >>

\* C20 witness: a connector flow that carried x-request-id was answered by the
\* service, resumed, and its response hook has returned
C20_Witness ==
  \E f \in FlowIds :
    /\ path[f] = "connector"
    /\ Contains(inbound[f].headers, "x-request-id")
    /\ worker[f].pc = "done" /\ response[f].status_code = 200
    /\ hook[f][1].pc = "done" /\ hook[f][1].result = "absent"

====
